---- MODULE Spec2Model ----
(***************************************************************************)
(* A model of src/src/join.cpp of the 'stringi' library: stri_dup,         *)
(* stri_join2, stri_flatten_nosep and stri_flatten, each as the sequence   *)
(* of steps its code takes on a scratch buffer.                            *)
(*                                                                         *)
(* A character vector is a sequence of elements [na, bytes]; a byte is a   *)
(* small integer.  The code's indices are 0-based, sequences are 1-based:  *)
(* Elt(v, i) is the element the code calls v[i].  R_len_t is a signed      *)
(* 32-bit integer and NA_INTEGER is its least value.                       *)
(*                                                                         *)
(* A product of two R_len_t values that leaves the 32-bit range is         *)
(* undefined behaviour: the model lets it wrap (Mul32) or trap (pc =       *)
(* "trap").  A buffer is allocated holding one of the bytes of Alphabet in *)
(* every position, chosen nondeterministically.  A memcpy past the end of  *)
(* an allocation ends the run in pc = "heap_overflow".  A negative length  *)
(* handed to mkCharLenCE ends it in pc = "error".                          *)
(***************************************************************************)
EXTENDS Integers, Sequences, FiniteSets, TLC

VARIABLES fn, args, pc, loc, buf, ret, nset, warn, prev

vars == <<fn, args, pc, loc, buf, ret, nset, warn, prev>>

----------------------------------------------------------------------------
(* Bounds of the model *)

\* longest operand vector
MaxLen == 3
\* largest ordinary repetition count
MaxCount == 2

----------------------------------------------------------------------------
(* Values *)

NA_INTEGER == -2147483647 - 1

NA_STRING == [na |-> TRUE, bytes |-> <<>>]

Str(b) == [na |-> FALSE, bytes |-> b]

\* mkCharLen("", 0), also what allocVector(STRSXP, n) fills a new vector with
BlankString == Str(<< >>)

LENGTH(x) == Len(x.bytes)

Elt(v, i) == v[i + 1]

\* the bytes 'a' and 'b'
Alphabet == {97, 98}

SeqsUpTo(S, n) == UNION {[1..k -> S] : k \in 0..n}

\* the string operands of stri_dup: NA, "", "a", "bab", "ababa"
DupStrings ==
    {NA_STRING, Str(<< >>), Str(<<97>>), Str(<<98, 97, 98>>),
     Str(<<97, 98, 97, 98, 97>>)}

\* counts: NA, a negative one, 0..MaxCount, one whose product with a 3-byte
\* string is 2^32 + 2 and one whose product with a 5-byte string is 2^33 + 3
DupCounts == {NA_INTEGER, -1, 1431655766, 1717986919} \cup (0..MaxCount)

\* the string operands of stri_join2 and stri_flatten: NA, "", "a", "ba"
JoinStrings == {NA_STRING, Str(<< >>), Str(<<97>>), Str(<<98, 97>>)}

\* the operands of the small specification: NA, "", "aba"
SmallStrings == {NA_STRING, Str(<< >>), Str(<<97, 98, 97>>)}
SmallCounts == {NA_INTEGER, MaxCount, 1431655766}

NoCall == [fn |-> "none"]

----------------------------------------------------------------------------
(* 32-bit arithmetic *)

\* The exact product c*n leaves the range of R_len_t.  c is any 32-bit
\* value and 0 <= n < 2^15; computed on 16-bit halves.
Overflows(c, n) ==
    LET carry == ((c % 65536) * n) \div 65536
        high  == (c \div 65536) * n + carry
    IN  high < -32768 \/ high > 32767

\* c*n as a wrapping signed 32-bit product
Mul32(c, n) ==
    LET low   == (c % 65536) * n
        high  == (((c \div 65536) % 65536) * n + (low \div 65536)) % 65536
    IN  (IF high >= 32768 THEN high - 65536 ELSE high) * 65536 + (low % 65536)

----------------------------------------------------------------------------
(* Shared helpers *)

\* memcpy(buf + at, src, n) for a write inside the allocation
Memcpy(b, at, src, n) ==
    [k \in 1..Len(b) |-> IF k > at /\ k <= at + n THEN src[k - at] ELSE b[k]]

\* new char[n] / R_alloc(n, 1): n bytes of whatever the allocator holds
Alloc(n, junk) == [k \in 1..n |-> junk]

\* mkCharLen(buf, n): the first n bytes of the buffer
mkCharLen(b, n) == Str(SubSeq(b, 1, n))

\* SET_STRING_ELT(v, i, x)
SetElt(v, i, x) == [v EXCEPT ![i + 1] = x]

Bump(cnt, i) == [cnt EXCEPT ![i + 1] = @ + 1]

Max(a, b) == IF a >= b THEN a ELSE b

\* stri__recycling_rule(true, 2, n1, n2): 0 if an operand is empty, else
\* the longer length
stri__recycling_rule(n1, n2) == IF n1 <= 0 \/ n2 <= 0 THEN 0 ELSE Max(n1, n2)

\* ... and its warning when a length does not divide the result
RecyclingWarning(n1, n2) ==
    IF n1 > 0 /\ n2 > 0 /\ (Max(n1, n2) % n1 # 0 \/ Max(n1, n2) % n2 # 0)
    THEN {"RECYCLING_RULE"} ELSE {}

\* The caller makes a second call; the first one's result is kept in prev.
Recall(f, a, start) ==
    /\ prev' = [fn |-> fn, args |-> args, ret |-> ret, warn |-> warn]
    /\ fn' = f
    /\ args' = a
    /\ pc' = start
    /\ loc' = [nmax |-> 0]
    /\ buf' = << >>
    /\ ret' = << >>
    /\ nset' = << >>
    /\ warn' = {}

----------------------------------------------------------------------------
(* stri_dup *)

\* ss->isNA(i), ss->get(i) of a StriContainerUTF8 over s: element i mod |s|
ContainerGet(s, i) == Elt(s, i % Len(s))

\* &ss->get(i): the identity of the element slot i resolves to
ContainerId(s, i) == i % Len(s)

\* a slot the sizing pass skips
DupSizeSkips(s, c, i) ==
    ContainerGet(s, i).na \/ Elt(c, i % Len(c)) = NA_INTEGER

\* R_len_t cursize = cc[i % nc]*ss->get(i).size()
DupCurSize(s, c, i) == Mul32(Elt(c, i % Len(c)), LENGTH(ContainerGet(s, i)))

\* STEP 1: bufsize after slots 0..n-1
RECURSIVE DupBufSize(_, _, _)
DupBufSize(s, c, n) ==
    IF n = 0 THEN 0
    ELSE LET before == DupBufSize(s, c, n - 1)
         IN  IF DupSizeSkips(s, c, n - 1) THEN before
             ELSE IF DupCurSize(s, c, n - 1) > before
                  THEN DupCurSize(s, c, n - 1) ELSE before

\* some product of the sizing pass leaves the 32-bit range
DupSizeOverflows(s, c, n) ==
    \E i \in 0..(n - 1) :
        /\ ~DupSizeSkips(s, c, i)
        /\ Overflows(Elt(c, i % Len(c)), LENGTH(ContainerGet(s, i)))

\* slot i yields NA
DupIsNA(s, c, i) ==
    \/ ContainerGet(s, i).na
    \/ Elt(c, i % Len(c)) = NA_INTEGER
    \/ Elt(c, i % Len(c)) < 0

\* slot i yields the empty string
DupIsEmpty(s, c, i) ==
    Elt(c, i % Len(c)) <= 0 \/ LENGTH(ContainerGet(s, i)) <= 0

DupLocals(nmax, bufsize) ==
    [nmax |-> nmax, bufsize |-> bufsize, last_string |-> -1, last_index |-> 0,
     i |-> -1, visited |-> {}, cur_dups |-> 0, cur_length |-> 0, max_index |-> 0,
     from |-> 0, to |-> 0, wcount |-> [k \in 1..(bufsize + 1) |-> 0]]

\* lines 42-67: the arguments, the early return, the sizing pass and the
\* two allocations
DupStart ==
    /\ pc = "dup_start"
    /\ LET nmax == stri__recycling_rule(Len(args.s), Len(args.c))
       IN  IF nmax <= 0
           THEN /\ ret' = << >>
                /\ pc' = "done"
                /\ UNCHANGED <<loc, buf, nset, warn>>
           ELSE LET bufsize == DupBufSize(args.s, args.c, nmax)
                IN  /\ \E junk \in Alphabet : buf' = Alloc(bufsize + 1, junk)
                    /\ loc' = DupLocals(nmax, bufsize)
                    /\ ret' = [k \in 1..nmax |-> BlankString]
                    /\ nset' = [k \in 1..nmax |-> 0]
                    /\ warn' = warn \cup RecyclingWarning(Len(args.s), Len(args.c))
                    /\ pc' = "dup_loop"
    /\ UNCHANGED <<fn, args, prev>>

\* line 58 when the product overflows and the build traps on signed overflow
DupSizeTrap ==
    /\ pc = "dup_start"
    /\ LET nmax == stri__recycling_rule(Len(args.s), Len(args.c))
       IN  nmax > 0 /\ DupSizeOverflows(args.s, args.c, nmax)
    /\ pc' = "trap"
    /\ UNCHANGED <<fn, args, loc, buf, ret, nset, warn, prev>>

\* lines 74-98: one iteration of the emission loop up to the copy loop.
\* The container's iterator may hand out the slots in any order.
DupVisit ==
    /\ pc = "dup_loop"
    /\ \E i \in (0..(loc.nmax - 1)) \ loc.visited :
        LET cur_dups   == Elt(args.c, i % Len(args.c))
            cur_length == LENGTH(ContainerGet(args.s, i))
            reset      == ContainerId(args.s, i) # loc.last_string
            seen       == [loc EXCEPT !.visited = @ \cup {i}, !.i = i,
                                      !.cur_dups = cur_dups]
        IN  IF DupIsNA(args.s, args.c, i)
            THEN /\ ret' = SetElt(ret, i, NA_STRING)
                 /\ nset' = Bump(nset, i)
                 /\ loc' = seen
                 /\ pc' = "dup_loop"
            ELSE IF DupIsEmpty(args.s, args.c, i)
            THEN /\ ret' = SetElt(ret, i, BlankString)
                 /\ nset' = Bump(nset, i)
                 /\ loc' = [seen EXCEPT !.cur_length = cur_length]
                 /\ pc' = "dup_loop"
            ELSE /\ loc' = [seen EXCEPT
                              !.cur_length = cur_length,
                              !.last_string = ContainerId(args.s, i),
                              !.last_index = IF reset THEN 0 ELSE @,
                              !.from = IF reset THEN 0 ELSE loc.last_index,
                              !.wcount = IF reset
                                         THEN [k \in 1..Len(buf) |-> 0] ELSE @,
                              !.max_index = Mul32(cur_dups, cur_length)]
                 /\ pc' = "dup_copy"
                 /\ UNCHANGED <<ret, nset>>
    /\ UNCHANGED <<fn, args, buf, warn, prev>>

\* line 98 when the product overflows and the build traps on signed overflow
DupEmitTrap ==
    /\ pc = "dup_loop"
    /\ \E i \in (0..(loc.nmax - 1)) \ loc.visited :
        /\ ~DupIsNA(args.s, args.c, i)
        /\ ~DupIsEmpty(args.s, args.c, i)
        /\ Overflows(Elt(args.c, i % Len(args.c)), LENGTH(ContainerGet(args.s, i)))
    /\ pc' = "trap"
    /\ UNCHANGED <<fn, args, loc, buf, ret, nset, warn, prev>>

\* lines 99-101: one iteration of the copy loop
DupCopy ==
    /\ pc = "dup_copy"
    /\ loc.last_index < loc.max_index
    /\ IF loc.last_index + loc.cur_length > Len(buf)
       THEN \* a write past new char[bufsize+1]
            /\ pc' = "heap_overflow"
            /\ UNCHANGED <<loc, buf>>
       ELSE /\ buf' = Memcpy(buf, loc.last_index,
                             ContainerGet(args.s, loc.i).bytes, loc.cur_length)
            /\ loc' = [loc EXCEPT
                         !.last_index = @ + loc.cur_length,
                         !.to = loc.last_index + loc.cur_length,
                         !.wcount = [k \in 1..Len(buf) |->
                                       IF k > loc.last_index
                                          /\ k <= loc.last_index + loc.cur_length
                                       THEN @[k] + 1 ELSE @[k]]]
            /\ pc' = "dup_copy"
    /\ UNCHANGED <<fn, args, ret, nset, warn, prev>>

\* line 104: the copy loop is over; mkCharLenCE refuses a negative length
DupEmit ==
    /\ pc = "dup_copy"
    /\ ~(loc.last_index < loc.max_index)
    /\ IF loc.max_index < 0
       THEN /\ pc' = "error"
            /\ UNCHANGED <<ret, nset>>
       ELSE /\ ret' = SetElt(ret, loc.i, mkCharLen(buf, loc.max_index))
            /\ nset' = Bump(nset, loc.i)
            /\ pc' = "dup_loop"
    /\ UNCHANGED <<fn, args, loc, buf, warn, prev>>

\* lines 109-115
DupReturn ==
    /\ pc = "dup_loop"
    /\ loc.visited = 0..(loc.nmax - 1)
    /\ pc' = "done"
    /\ UNCHANGED <<fn, args, loc, buf, ret, nset, warn, prev>>

NextDup == DupStart \/ DupSizeTrap \/ DupVisit \/ DupEmitTrap \/ DupCopy \/ DupEmit \/ DupReturn

----------------------------------------------------------------------------
(* stri_join2 *)

\* lines 152-158: the inner sizing loop over the slots j = i, i+ns1, ...
RECURSIVE J2MaxInner(_, _, _, _, _, _)
J2MaxInner(s1, s2, i, j, nsm, maxsize) ==
    IF ~(j < nsm) THEN maxsize
    ELSE LET curs2 == Elt(s2, j % Len(s2))
             size  == LENGTH(Elt(s1, i)) + LENGTH(curs2)
         IN  J2MaxInner(s1, s2, i, j + Len(s1), nsm,
                        IF ~curs2.na /\ size > maxsize THEN size ELSE maxsize)

\* lines 146-159: the outer sizing loop from element i on
RECURSIVE J2MaxSize(_, _, _, _, _)
J2MaxSize(s1, s2, i, nsm, maxsize) ==
    IF ~(i < Len(s1)) THEN maxsize
    ELSE IF Elt(s1, i).na THEN J2MaxSize(s1, s2, i + 1, nsm, maxsize)
    ELSE J2MaxSize(s1, s2, i + 1, nsm, J2MaxInner(s1, s2, i, i, nsm, maxsize))

\* a faulty variant of line 200: the comparison of buf2 with buf inverted
J2NeedsCopyBad(sn1, buf2) == sn1 # 0 /\ buf2 # 0

\* line 200: the copy of ss1 is still to be made (buf2 is an offset into buf)
J2NeedsCopy(sn1, buf2) == sn1 # 0 /\ buf2 = 0

\* a faulty variant of line 203: buf2 left at the start of the buffer
J2Buf2Bad(sn1) == 0

\* line 203: buf2 = buf + sn1
J2Buf2(sn1) == sn1

\* a faulty variant of lines 142-143: the two returns exchanged
J2EarlyReturnBad(s1, s2) == IF Len(s1) <= 0 THEN s1 ELSE s2

\* lines 142-143: what an empty operand makes stri_join2 return
J2EarlyReturn(s1, s2) == IF Len(s1) <= 0 THEN s2 ELSE s1

J2Locals(nsm, maxsize) ==
    [ns1 |-> Len(args.s1), ns2 |-> Len(args.s2), nsm |-> nsm,
     maxsize |-> maxsize, i |-> 0, j |-> 0, buf2 |-> 0, to |-> 0]

\* lines 135-176: the arguments, the two early returns, the sizing pass,
\* the output vector and the scratch buffer
J2Start ==
    /\ pc = "j2_start"
    /\ LET ns1 == Len(args.s1)
           ns2 == Len(args.s2)
           nsm == stri__recycling_rule(ns1, ns2)
           maxsize == J2MaxSize(args.s1, args.s2, 0, nsm, 0)
       IN  IF ns1 <= 0 \/ ns2 <= 0
           THEN /\ ret' = J2EarlyReturn(args.s1, args.s2)
                /\ pc' = "done"
                /\ UNCHANGED <<loc, buf, nset, warn>>
           ELSE /\ ret' = [k \in 1..nsm |-> BlankString]
                /\ nset' = [k \in 1..nsm |-> 0]
                /\ warn' = warn \cup RecyclingWarning(ns1, ns2)
                /\ loc' = J2Locals(nsm, maxsize)
                /\ IF maxsize <= 0
                   THEN buf' = << >> /\ pc' = "j2_blank"
                   ELSE /\ \E junk \in Alphabet : buf' = Alloc(maxsize, junk)
                        /\ pc' = "j2_outer"
    /\ UNCHANGED <<fn, args, prev>>

\* lines 167-173: one slot of the branch that needs no buffer
J2Blank ==
    /\ pc = "j2_blank"
    /\ loc.i < loc.nsm
    /\ ret' = SetElt(ret, loc.i,
                     IF Elt(args.s1, loc.i % loc.ns1).na
                        \/ Elt(args.s2, loc.i % loc.ns2).na
                     THEN NA_STRING ELSE BlankString)
    /\ nset' = Bump(nset, loc.i)
    /\ loc' = [loc EXCEPT !.i = @ + 1]
    /\ UNCHANGED <<fn, args, pc, buf, warn, prev>>

\* lines 180-190: the next element of s1
J2Outer ==
    /\ pc = "j2_outer"
    /\ loc.i < loc.ns1
    /\ loc' = [loc EXCEPT !.j = loc.i, !.buf2 = 0]
    /\ pc' = IF Elt(args.s1, loc.i).na THEN "j2_na" ELSE "j2_inner"
    /\ UNCHANGED <<fn, args, buf, ret, nset, warn, prev>>

\* lines 183-184: a slot of an NA element of s1
J2FillNA ==
    /\ pc = "j2_na"
    /\ ret' = SetElt(ret, loc.j, NA_STRING)
    /\ nset' = Bump(nset, loc.j)
    /\ IF loc.j + loc.ns1 < loc.nsm
       THEN loc' = [loc EXCEPT !.j = @ + loc.ns1] /\ pc' = "j2_na"
       ELSE loc' = [loc EXCEPT !.j = @ + loc.ns1, !.i = @ + 1] /\ pc' = "j2_outer"
    /\ UNCHANGED <<fn, args, buf, warn, prev>>

\* lines 192-209: a slot of a non-NA element of s1
J2Inner ==
    /\ pc = "j2_inner"
    /\ LET ss1  == Elt(args.s1, loc.i)
           ss2  == Elt(args.s2, loc.j % loc.ns2)
           sn1  == LENGTH(ss1)
           sn2  == LENGTH(ss2)
           copy == J2NeedsCopy(sn1, loc.buf2)
           buf2 == IF copy THEN J2Buf2(sn1) ELSE loc.buf2
           to   == Max(IF copy THEN sn1 ELSE 0, IF sn2 # 0 THEN buf2 + sn2 ELSE 0)
           buf1 == IF copy THEN Memcpy(buf, 0, ss1.bytes, sn1) ELSE buf
           step == IF loc.j + loc.ns1 < loc.nsm
                   THEN [loc EXCEPT !.j = @ + loc.ns1]
                   ELSE [loc EXCEPT !.j = @ + loc.ns1, !.i = @ + 1]
           next == IF loc.j + loc.ns1 < loc.nsm THEN "j2_inner" ELSE "j2_outer"
       IN  IF ss2.na
           THEN /\ ret' = SetElt(ret, loc.j, NA_STRING)
                /\ nset' = Bump(nset, loc.j)
                /\ loc' = step
                /\ pc' = next
                /\ buf' = buf
           ELSE IF to > Len(buf)
           THEN \* a write past R_alloc(maxsize)
                /\ pc' = "heap_overflow"
                /\ loc' = [loc EXCEPT !.to = to]
                /\ UNCHANGED <<buf, ret, nset>>
           ELSE /\ buf' = IF sn2 # 0 THEN Memcpy(buf1, buf2, ss2.bytes, sn2) ELSE buf1
                /\ ret' = SetElt(ret, loc.j, mkCharLen(buf', sn1 + sn2))
                /\ nset' = Bump(nset, loc.j)
                /\ loc' = [step EXCEPT !.buf2 = buf2, !.to = to]
                /\ pc' = next
    /\ UNCHANGED <<fn, args, warn, prev>>

\* lines 214-215
J2Return ==
    /\ \/ pc = "j2_outer" /\ ~(loc.i < loc.ns1)
       \/ pc = "j2_blank" /\ ~(loc.i < loc.nsm)
    /\ pc' = "done"
    /\ UNCHANGED <<fn, args, loc, buf, ret, nset, warn, prev>>

\* The caller joins the result of join2(a, "") with "" once more.
J2Again ==
    /\ pc = "done"
    /\ fn = "stri_join2"
    /\ prev = NoCall
    /\ args.s2 = <<BlankString>>
    /\ Recall("stri_join2", [s1 |-> ret, s2 |-> <<BlankString>>], "j2_start")

NextJoin2 == J2Start \/ J2Blank \/ J2Outer \/ J2FillNA \/ J2Inner \/ J2Return \/ J2Again

----------------------------------------------------------------------------
(* stri_flatten_nosep and stri_flatten *)

\* some element of s is NA: the sizing loop returns NA at the first one
AnyNA(s) == \E k \in 1..Len(s) : s[k].na

\* lines 296-302: nchar after elements 0..n-1
RECURSIVE NosepNchar(_, _)
NosepNchar(s, n) ==
    IF n = 0 THEN 0 ELSE NosepNchar(s, n - 1) + LENGTH(Elt(s, n - 1))

\* a faulty variant of line 375: a separator counted after the last element
FlattenAddsBad(s, i, ncharsep) == LENGTH(Elt(s, i)) + ncharsep

\* line 375: what element i adds to nchar
FlattenAdds(s, i, ncharsep) ==
    LENGTH(Elt(s, i)) + (IF i < Len(s) - 1 THEN ncharsep ELSE 0)

\* lines 368-376: nchar after elements 0..n-1
RECURSIVE FlattenNchar(_, _, _)
FlattenNchar(s, n, ncharsep) ==
    IF n = 0 THEN 0
    ELSE FlattenNchar(s, n - 1, ncharsep) + FlattenAdds(s, n - 1, ncharsep)

FlattenLocals(ns, nsep, ncharsep, nchar) ==
    [ns |-> ns, nsep |-> nsep, ncharsep |-> ncharsep, nchar |-> nchar,
     i |-> 0, cur |-> 0, to |-> 0]

\* lines 287-306: the argument, the early return, the sizing pass with its
\* NA return, and the buffer
NosepStart ==
    /\ pc = "nosep_start"
    /\ LET ns == Len(args.s)
           nchar == NosepNchar(args.s, ns)
       IN  IF ns <= 0
           THEN /\ ret' = args.s
                /\ pc' = "done"
                /\ UNCHANGED <<loc, buf>>
           ELSE IF AnyNA(args.s)
           THEN /\ ret' = <<NA_STRING>>
                /\ pc' = "done"
                /\ UNCHANGED <<loc, buf>>
           ELSE /\ \E junk \in Alphabet : buf' = Alloc(nchar, junk)
                /\ loc' = FlattenLocals(ns, 0, 0, nchar)
                /\ pc' = "nosep_fill"
                /\ UNCHANGED ret
    /\ UNCHANGED <<fn, args, nset, warn, prev>>

\* lines 307-311: one element copied
NosepFill ==
    /\ pc = "nosep_fill"
    /\ loc.i < loc.ns
    /\ LET ncur == LENGTH(Elt(args.s, loc.i))
       IN  IF loc.cur + ncur > Len(buf)
           THEN \* a write past new char[nchar]
                /\ pc' = "heap_overflow"
                /\ loc' = [loc EXCEPT !.to = loc.cur + ncur]
                /\ buf' = buf
           ELSE /\ buf' = Memcpy(buf, loc.cur, Elt(args.s, loc.i).bytes, ncur)
                /\ loc' = [loc EXCEPT !.cur = @ + ncur, !.i = @ + 1,
                                      !.to = loc.cur + ncur]
                /\ pc' = "nosep_fill"
    /\ UNCHANGED <<fn, args, ret, nset, warn, prev>>

\* lines 314-321
NosepReturn ==
    /\ pc = "nosep_fill"
    /\ ~(loc.i < loc.ns)
    /\ ret' = <<mkCharLen(buf, loc.nchar)>>
    /\ pc' = "done"
    /\ UNCHANGED <<fn, args, loc, buf, nset, warn, prev>>

\* lines 340-380: the arguments, the early return, the warning, the NA
\* separator, the sizing pass with its NA return, and the buffer
FlattenStart ==
    /\ pc = "flatten_start"
    /\ LET ns == Len(args.s)
           nsep == Len(args.sep)
           ncharsep == LENGTH(Elt(args.sep, 0))
           nchar == FlattenNchar(args.s, ns, ncharsep)
       IN  IF ns <= 0 \/ nsep <= 0
           THEN /\ ret' = << >>
                /\ pc' = "done"
                /\ UNCHANGED <<loc, buf, warn>>
           ELSE /\ warn' = IF nsep > 1 THEN warn \cup {"COLLAPSE_EXPECTED1"} ELSE warn
                /\ IF Elt(args.sep, 0).na \/ AnyNA(args.s)
                   THEN /\ ret' = <<NA_STRING>>
                        /\ pc' = "done"
                        /\ UNCHANGED <<loc, buf>>
                   ELSE /\ \E junk \in Alphabet : buf' = Alloc(nchar, junk)
                        /\ loc' = FlattenLocals(ns, nsep, ncharsep, nchar)
                        /\ pc' = "flatten_fill"
                        /\ UNCHANGED ret
    /\ UNCHANGED <<fn, args, nset, prev>>

\* lines 382-390: one element copied, and the separator after it
FlattenFill ==
    /\ pc = "flatten_fill"
    /\ loc.i < loc.ns
    /\ LET ncur == LENGTH(Elt(args.s, loc.i))
           withsep == loc.i < loc.ns - 1 /\ loc.ncharsep > 0
           to == loc.cur + ncur + (IF withsep THEN loc.ncharsep ELSE 0)
           buf1 == Memcpy(buf, loc.cur, Elt(args.s, loc.i).bytes, ncur)
       IN  IF to > Len(buf)
           THEN \* a write past new char[nchar]
                /\ pc' = "heap_overflow"
                /\ loc' = [loc EXCEPT !.to = to]
                /\ buf' = buf
           ELSE /\ buf' = IF withsep
                          THEN Memcpy(buf1, loc.cur + ncur,
                                      Elt(args.sep, 0).bytes, loc.ncharsep)
                          ELSE buf1
                /\ loc' = [loc EXCEPT !.cur = to, !.i = @ + 1, !.to = to]
                /\ pc' = "flatten_fill"
    /\ UNCHANGED <<fn, args, ret, nset, warn, prev>>

\* lines 393-401
FlattenReturn ==
    /\ pc = "flatten_fill"
    /\ ~(loc.i < loc.ns)
    /\ ret' = <<mkCharLen(buf, loc.nchar)>>
    /\ pc' = "done"
    /\ UNCHANGED <<fn, args, loc, buf, nset, warn, prev>>

\* The caller repeats a call with several separators with the first alone.
FlattenFirstSep ==
    /\ pc = "done"
    /\ fn = "stri_flatten"
    /\ prev = NoCall
    /\ Len(args.sep) > 1
    /\ Recall("stri_flatten", [s |-> args.s, sep |-> <<Elt(args.sep, 0)>>],
              "flatten_start")

\* The caller repeats a call of the no-separator form with the separator "".
FlattenEmptySep ==
    /\ pc = "done"
    /\ fn = "stri_flatten_nosep"
    /\ prev = NoCall
    /\ Recall("stri_flatten", [s |-> args.s, sep |-> <<BlankString>>],
              "flatten_start")

NextFlatten ==
    \/ NosepStart \/ NosepFill \/ NosepReturn
    \/ FlattenStart \/ FlattenFill \/ FlattenReturn
    \/ FlattenFirstSep \/ FlattenEmptySep

Next == NextDup \/ NextJoin2 \/ NextFlatten

----------------------------------------------------------------------------
(* Specifications *)

DupCalls(strings, counts) ==
    {[s |-> s, c |-> c] : s \in SeqsUpTo(strings, MaxLen),
                          c \in SeqsUpTo(counts, MaxLen)}

\* the calls whose scratch buffer the model can hold: no larger than the
\* longest string repeated MaxCount times
DupFits(a) ==
    LET nmax == stri__recycling_rule(Len(a.s), Len(a.c))
    IN  DupBufSize(a.s, a.c, nmax) <= 5 * MaxCount

InitCall(f, a, start) ==
    /\ fn = f
    /\ args = a
    /\ pc = start
    /\ loc = [nmax |-> 0]
    /\ buf = << >>
    /\ ret = << >>
    /\ nset = << >>
    /\ warn = {}
    /\ prev = NoCall

InitDup ==
    \E a \in DupCalls(DupStrings, DupCounts) :
        DupFits(a) /\ InitCall("stri_dup", a, "dup_start")

SpecDup == InitDup /\ [][NextDup]_vars

Join2Calls(strings) ==
    {[s1 |-> a, s2 |-> b] : a \in SeqsUpTo(strings, MaxLen),
                            b \in SeqsUpTo(strings, MaxLen)}

InitJoin2 ==
    \E a \in Join2Calls(JoinStrings) : InitCall("stri_join2", a, "j2_start")

SpecJoin2 == InitJoin2 /\ [][NextJoin2]_vars

FlattenCalls ==
    {[s |-> s, sep |-> sep] : s \in SeqsUpTo(JoinStrings, MaxLen),
                              sep \in SeqsUpTo(JoinStrings, MaxLen)}

NosepCalls == {[s |-> s] : s \in SeqsUpTo(JoinStrings, MaxLen)}

InitFlatten ==
    \/ \E a \in FlattenCalls : InitCall("stri_flatten", a, "flatten_start")
    \/ \E a \in NosepCalls : InitCall("stri_flatten_nosep", a, "nosep_start")

SpecFlatten == InitFlatten /\ [][NextFlatten]_vars

\* stri_dup and stri_join2 over the small operands
InitSmall ==
    \/ \E a \in DupCalls(SmallStrings, SmallCounts) :
           DupFits(a) /\ InitCall("stri_dup", a, "dup_start")
    \/ \E a \in Join2Calls(SmallStrings) : InitCall("stri_join2", a, "j2_start")

NextSmall == NextDup \/ NextJoin2

SpecSmall == InitSmall /\ [][NextSmall]_vars

Init == InitDup \/ InitJoin2 \/ InitFlatten

Spec == Init /\ [][Next]_vars

----------------------------------------------------------------------------
(* What the specification expects, stated apart from the code *)

\* r is w repeated exactly n times (w not empty)
IsRepeat(r, w, n) ==
    /\ Len(r) % Len(w) = 0
    /\ Len(r) \div Len(w) = n
    /\ \A k \in 1..Len(r) : r[k] = w[((k - 1) % Len(w)) + 1]

\* the element duplicate(s, c) must hold at output index i
DupSlotAsSpecified(s, c, i, r) ==
    LET si == Elt(s, i % Len(s))
        ci == Elt(c, i % Len(c))
    IN  IF si.na \/ ci = NA_INTEGER \/ ci < 0 THEN r = NA_STRING
        ELSE IF ci = 0 \/ Len(si.bytes) = 0 THEN r = Str(<< >>)
        ELSE ~r.na /\ IsRepeat(r.bytes, si.bytes, ci)

\* the element join2(a, b) must hold at output index j
Join2SlotAsSpecified(a, b, j) ==
    LET aj == Elt(a, j % Len(a))
        bj == Elt(b, j % Len(b))
    IN  IF aj.na \/ bj.na THEN NA_STRING ELSE Str(aj.bytes \o bj.bytes)

\* s[0], then sep and s[i] for each later i, over the first n elements
RECURSIVE Interleaved(_, _, _)
Interleaved(s, sep, n) ==
    IF n = 1 THEN s[1].bytes
    ELSE Interleaved(s, sep, n - 1) \o sep \o s[n].bytes

RECURSIVE SumOfLengths(_, _)
SumOfLengths(s, n) == IF n = 0 THEN 0 ELSE SumOfLengths(s, n - 1) + Len(s[n].bytes)

HasNull(s) == \E k \in 1..Len(s) : s[k].na

\* a live slot of stri_dup whose exact product leaves the 32-bit range
DupCallOverflows ==
    \E i \in 0..(Max(Len(args.s), Len(args.c)) - 1) :
        /\ ~Elt(args.s, i % Len(args.s)).na
        /\ Elt(args.c, i % Len(args.c)) > 0
        /\ Overflows(Elt(args.c, i % Len(args.c)), Len(Elt(args.s, i % Len(args.s)).bytes))

DupReturned ==
    fn = "stri_dup" /\ pc = "done" /\ Len(args.s) > 0 /\ Len(args.c) > 0

----------------------------------------------------------------------------
(* The claims *)

\* C1: duplicate(s, c) with both operands non-empty returns max(|s|, |c|)
\* elements, and element i is null if s[i mod |s|] or c[i mod |c|] is null or
\* the count is negative, is the empty string if the count is 0 or the string
\* is empty, and is otherwise the string repeated exactly count times, in
\* whatever order the emission loop visited the slots.
C1_DupPerSlot ==
    DupReturned =>
        /\ Len(ret) = Max(Len(args.s), Len(args.c))
        /\ \A i \in 0..(Len(ret) - 1) :
               DupSlotAsSpecified(args.s, args.c, i, Elt(ret, i))

\* C1 for the calls none of whose products leaves the 32-bit range
DupPerSlotWithinRange == (DupReturned /\ ~DupCallOverflows) => C1_DupPerSlot

\* C2: join2(a, b) with both operands non-empty returns max(|a|, |b|)
\* elements, each assigned exactly once; element j is null if a[j mod |a|] or
\* b[j mod |b|] is null and otherwise the bytes of the one followed by the
\* bytes of the other, in the branch without a buffer and in the branch with.
C2_Join2PerSlot ==
    (fn = "stri_join2" /\ pc = "done" /\ Len(args.s1) > 0 /\ Len(args.s2) > 0) =>
        /\ Len(ret) = Max(Len(args.s1), Len(args.s2))
        /\ \A j \in 0..(Len(ret) - 1) :
               /\ Elt(nset, j) = 1
               /\ Elt(ret, j) = Join2SlotAsSpecified(args.s1, args.s2, j)

\* a call through the scratch buffer with operands of different lengths, a
\* null slot and a slot joined from two non-empty strings
C2_Witness ==
    /\ fn = "stri_join2" /\ pc = "done"
    /\ Len(args.s1) > 1 /\ Len(args.s2) > Len(args.s1)
    /\ loc.maxsize > 0
    /\ \E j \in 1..Len(ret) : ret[j].na
    /\ \E j \in 1..Len(ret) :
           /\ ~ret[j].na
           /\ LENGTH(Elt(args.s1, (j - 1) % Len(args.s1))) > 0
           /\ LENGTH(Elt(args.s2, (j - 1) % Len(args.s2))) > 0

\* C3 as stated: an empty operand of duplicate or of join2 yields a result of
\* length 0.
C3_EmptyOperandEmptyResult ==
    /\ (fn = "stri_dup" /\ pc = "done" /\ (Len(args.s) = 0 \/ Len(args.c) = 0))
           => Len(ret) = 0
    /\ (fn = "stri_join2" /\ pc = "done" /\ (Len(args.s1) = 0 \/ Len(args.s2) = 0))
           => Len(ret) = 0

\* C3 as amended: an empty operand of duplicate yields a result of length 0;
\* join2 returns b when a is empty and a when only b is empty, so that its
\* result is of length 0 only when both are.
C3_EmptyOperand ==
    /\ (fn = "stri_dup" /\ pc = "done" /\ (Len(args.s) = 0 \/ Len(args.c) = 0))
           => Len(ret) = 0
    /\ (fn = "stri_join2" /\ pc = "done" /\ Len(args.s1) = 0) => ret = args.s2
    /\ (fn = "stri_join2" /\ pc = "done" /\ Len(args.s1) > 0 /\ Len(args.s2) = 0)
           => ret = args.s1

\* join2 of an empty a and a b of two elements has returned
C3_Witness ==
    /\ fn = "stri_join2" /\ pc = "done"
    /\ Len(args.s1) = 0 /\ Len(args.s2) = 2 /\ Len(ret) = 2

\* C4: for a non-empty s and a single separator, flatten returns [null] if the
\* separator or an element of s is null, and otherwise one string: s[0], then
\* the separator and s[i] for each later i, of sum(byte_len(s[i])) +
\* (|s|-1)*byte_len(sep) bytes; and flatten(s, "") returns what the
\* no-separator form returned for the same s, empty s and null elements
\* included.
C4_Flatten ==
    /\ (fn = "stri_flatten" /\ pc = "done" /\ Len(args.s) >= 1 /\ Len(args.sep) = 1) =>
          IF args.sep[1].na \/ HasNull(args.s)
          THEN ret = <<NA_STRING>>
          ELSE /\ ret = <<Str(Interleaved(args.s, args.sep[1].bytes, Len(args.s)))>>
               /\ Len(ret[1].bytes) = SumOfLengths(args.s, Len(args.s))
                                       + (Len(args.s) - 1) * Len(args.sep[1].bytes)
    /\ (fn = "stri_flatten" /\ pc = "done" /\ prev.fn = "stri_flatten_nosep") =>
          ret = prev.ret

\* three strings, not all empty, flattened around a non-empty separator
C4_Witness ==
    /\ fn = "stri_flatten" /\ pc = "done"
    /\ Len(args.s) = 3 /\ Len(args.sep) = 1
    /\ LENGTH(args.sep[1]) > 0
    /\ Len(ret) = 1 /\ ~ret[1].na
    /\ LENGTH(ret[1]) > 2 * LENGTH(args.sep[1])

\* C5: a call of flatten with more than one separator emits the
\* COLLAPSE_EXPECTED1 warning and returns what flatten(s, [sep[0]]) returns,
\* for every s, the empty one included.
C5_CollapseWarning ==
    /\ (fn = "stri_flatten" /\ pc = "done" /\ Len(args.sep) > 1) =>
          "COLLAPSE_EXPECTED1" \in warn
    /\ (fn = "stri_flatten" /\ pc = "done" /\ prev.fn = "stri_flatten") =>
          /\ "COLLAPSE_EXPECTED1" \in prev.warn
          /\ ret = prev.ret

\* C5 for the calls with a non-empty s, and the equality of the results for
\* every s
CollapseWarningNonEmpty ==
    /\ (fn = "stri_flatten" /\ pc = "done" /\ Len(args.sep) > 1 /\ Len(args.s) > 0) =>
          "COLLAPSE_EXPECTED1" \in warn
    /\ (fn = "stri_flatten" /\ pc = "done" /\ prev.fn = "stri_flatten") =>
          ret = prev.ret

\* C6: stri_flatten returns exactly one element whenever s is not empty,
\* whatever the separator argument, and no element only when s is empty.
C6_FlattenLength ==
    (fn = "stri_flatten" /\ pc = "done") =>
        /\ Len(args.s) > 0 => Len(ret) = 1
        /\ Len(ret) = 0 => Len(args.s) = 0

\* C7 as stated: join2(a, [""]) is a, for a of any length, and joining the
\* result with [""] again is a too.
C7_EmptyStringIdentity ==
    (fn = "stri_join2" /\ pc = "done" /\ args.s2 = <<BlankString>>) =>
        /\ ret = args.s1
        /\ prev.fn = "stri_join2" => ret = prev.args.s1

\* C7 as amended: for a of length at least 1, join2(a, [""]) is a, and joining
\* the result with [""] again is a too; for the empty a, join2(a, [""]) is [""].
C7_EmptyStringIdentityNonEmpty ==
    (fn = "stri_join2" /\ pc = "done" /\ args.s2 = <<BlankString>>) =>
        /\ Len(args.s1) > 0 => ret = args.s1
        /\ Len(args.s1) = 0 => ret = <<BlankString>>
        /\ (prev.fn = "stri_join2" /\ Len(prev.args.s1) > 0) => ret = prev.args.s1

\* the second join of a three-element a holding a null and a non-empty string
C7_Witness ==
    /\ fn = "stri_join2" /\ pc = "done"
    /\ prev.fn = "stri_join2"
    /\ Len(prev.args.s1) = 3
    /\ \E k \in 1..3 : prev.args.s1[k].na
    /\ \E k \in 1..3 : LENGTH(prev.args.s1[k]) > 1

\* C8: for every non-null count ci >= 0 of the 32-bit range, the products of
\* the sizing pass and of the emission pass are the exact ci * byte_len(si),
\* and the emitted slot is that many bytes long, never shorter and never of a
\* negative length.
C8_ProductsExact ==
    fn = "stri_dup" =>
        /\ pc # "error"
        /\ pc = "dup_copy" =>
              /\ ~Overflows(loc.cur_dups, loc.cur_length)
              /\ loc.max_index = loc.cur_dups * loc.cur_length
              /\ loc.bufsize >= loc.max_index
        /\ pc \in {"dup_loop", "dup_copy", "done"} =>
              \A i \in 0..(Len(ret) - 1) :
                  LET si == Elt(args.s, i % Len(args.s))
                      ci == Elt(args.c, i % Len(args.c))
                  IN  (Elt(nset, i) > 0 /\ ~si.na /\ ci >= 0) =>
                          /\ ~Overflows(ci, Len(si.bytes))
                          /\ LENGTH(Elt(ret, i)) = ci * Len(si.bytes)

\* C9: every byte the emission pass writes lies inside the scratch buffer as
\* the sizing pass sized it: in duplicate each memcpy ends at or before
\* bufsize, in join2 the writes end at or before maxsize, in flatten and its
\* no-separator form the cursor never passes nchar and ends on it.
C9_WritesInBounds ==
    /\ pc # "heap_overflow"
    /\ pc \in {"dup_loop", "dup_copy"} => loc.to <= loc.bufsize
    /\ pc \in {"j2_outer", "j2_na", "j2_inner"} => loc.to <= loc.maxsize
    /\ pc \in {"flatten_fill", "nosep_fill"} =>
          /\ loc.to <= loc.nchar
          /\ loc.cur <= loc.nchar
          /\ ~(loc.i < loc.ns) => loc.cur = loc.nchar

\* C9 for join2, flatten and the no-separator form, and for the calls of
\* duplicate none of whose products leaves the 32-bit range
WritesInBoundsWithinRange ==
    (fn = "stri_dup" /\ Len(args.s) > 0 /\ Len(args.c) > 0 /\ DupCallOverflows)
        \/ C9_WritesInBounds

\* what the buffer holds: last_string, repeated, up to last_index
DupBufferHoldsRepeats ==
    loc.last_string # -1 =>
        LET w == Elt(args.s, loc.last_string).bytes
        IN  /\ loc.last_index % Len(w) = 0
            /\ loc.last_index <= Len(buf)
            /\ \A k \in 1..loc.last_index : buf[k] = w[((k - 1) % Len(w)) + 1]

\* C10: at every step of duplicate's emission, last_index is a multiple of
\* byte_len(last_string) and buf[0, last_index) is last_string repeated; a
\* live slot appends exactly the bytes from last_index (0 after a change of
\* source element) up to ci * byte_len(si), none when that is not beyond
\* last_index; and no buffer position is written twice while the source
\* element stays the same.
C10_BufferReuse ==
    (fn = "stri_dup" /\ pc \in {"dup_loop", "dup_copy"}) =>
        /\ DupBufferHoldsRepeats
        /\ \A k \in 1..Len(loc.wcount) : loc.wcount[k] <= 1
        /\ (pc = "dup_copy" /\ ~(loc.last_index < loc.max_index)) =>
              /\ ~Overflows(loc.cur_dups, loc.cur_length)
              /\ loc.last_index = Max(loc.from, loc.cur_dups * loc.cur_length)

\* C10 with the 32-bit product the loop computes in place of ci * byte_len(si)
BufferReuseModulo32 ==
    (fn = "stri_dup" /\ pc \in {"dup_loop", "dup_copy"}) =>
        /\ DupBufferHoldsRepeats
        /\ \A k \in 1..Len(loc.wcount) : loc.wcount[k] <= 1
        /\ (pc = "dup_copy" /\ ~(loc.last_index < loc.max_index)) =>
              \/ loc.last_index = loc.from
              \/ /\ loc.last_index >= loc.max_index
                 /\ loc.last_index - loc.cur_length < loc.max_index

\* C10: a slot that is null, has a count <= 0 or an empty string leaves the
\* buffer, last_string and last_index as they were.
DupDeadSlotsInert ==
    [][(pc = "dup_loop" /\ pc' = "dup_loop") =>
           /\ buf' = buf
           /\ loc'.last_string = loc.last_string
           /\ loc'.last_index = loc.last_index]_vars

====
